---------------------------- MODULE Spec2Model ----------------------------
(***************************************************************************)
(* Model of src/api.py: the hybrid three-layer classifier hybrid_detect    *)
(* and the /analyze handler that scores sections, aggregates them and      *)
(* stores one row per request.                                             *)
(*                                                                         *)
(* Representation                                                          *)
(*   - a text is a sequence of one-character strings;                      *)
(*   - a float confidence/similarity is an integer number of 1/10000       *)
(*     (1.0 is 10000, 0.35 is 3500, 0.5 is 5000);                          *)
(*   - the two external models are not part of the repository: what they   *)
(*     return is an input, drawn from TopicCases and SimCases (topic       *)
(*     probabilities lie in [0,1], cosine similarities in [-1,1]).         *)
(***************************************************************************)
EXTENDS Integers, Sequences, FiniteSets, TLC

VARIABLES
    topic_model,      \* TRUE iff BERTopic.load succeeded at startup
    embedding_model,  \* TRUE iff SentenceTransformer(...) succeeded at startup
    text,             \* argument of a direct hybrid_detect call
    result,           \* what that call returned
    observed,         \* what the external models returned to that call
    request,          \* body of a POST /analyze
    seed,             \* selects the (deterministic) behaviour of the models
    detections,       \* the hybrid_detect calls analyze made: section, text, result
    total_risk_score, \* analyze's total_risk_score when it built the response
    reply,            \* what analyze returned
    dbLog,            \* the database operations analyze performed
    assessments       \* rows of table assessments committed by the request

vars == <<topic_model, embedding_model, text, result, observed, request, seed,
          detections, total_risk_score, reply, dbLog, assessments>>

---------------------------------------------------------------------------
(* Bounds of the model *)

MaxTextLen == 5
MaxSections == 2
MaxSeed == 6

---------------------------------------------------------------------------
(* Numbers of the program; confidences and similarities are in 1/10000 *)

MinTextLen == 5
KeywordConfidence == 10000
DefaultTopicConfidence == 5000
SimThreshold == 3500
SectionHigh == 6
SectionModerate == 2
OverallHigh == 10
OverallModerate == 3

---------------------------------------------------------------------------
(* Text: str.strip, str.lower, the in operator, str.join *)

Whitespace == {" ", "\t", "\n"}

UpperCase == <<"A","B","C","D","E","F","G","H","I","J","K","L","M",
               "N","O","P","Q","R","S","T","U","V","W","X","Y","Z">>
LowerCase == <<"a","b","c","d","e","f","g","h","i","j","k","l","m",
               "n","o","p","q","r","s","t","u","v","w","x","y","z">>

LowerOf ==
    [c \in {UpperCase[i] : i \in 1..Len(UpperCase)} |->
        LowerCase[CHOOSE i \in 1..Len(UpperCase) : UpperCase[i] = c]]

CharLower(c) == IF c \in DOMAIN LowerOf THEN LowerOf[c] ELSE c

RECURSIVE TextLower(_)
TextLower(t) ==
    IF t = <<>> THEN <<>> ELSE <<CharLower(Head(t))>> \o TextLower(Tail(t))

RECURSIVE LStrip(_)
LStrip(t) ==
    IF t = <<>> THEN <<>>
    ELSE IF Head(t) \in Whitespace THEN LStrip(Tail(t)) ELSE t

RECURSIVE RStrip(_)
RStrip(t) ==
    IF t = <<>> THEN <<>>
    ELSE IF t[Len(t)] \in Whitespace THEN RStrip(SubSeq(t, 1, Len(t) - 1)) ELSE t

Strip(t) == RStrip(LStrip(t))

Contains(key, t) ==
    \E i \in 1..(Len(t) - Len(key) + 1) : SubSeq(t, i, i + Len(key) - 1) = key

RECURSIVE Join(_)
Join(parts) ==
    IF parts = <<>> THEN <<>>
    ELSE IF Len(parts) = 1 THEN parts[1]
    ELSE parts[1] \o <<" ">> \o Join(Tail(parts))

---------------------------------------------------------------------------
(* Configuration *)

KeywordTableThreatFirst == <<
    [key |-> <<"t","h","r","e","a","t">>, val |-> "Control & Manipulation"],
    [key |-> <<"h","i","t">>,             val |-> "Physical Abuse"],
    [key |-> <<"s","l","a","p">>,         val |-> "Physical Abuse"],
    [key |-> <<"p","u","n","c","h">>,     val |-> "Physical Abuse"],
    [key |-> <<"k","i","c","k">>,         val |-> "Physical Abuse"],
    [key |-> <<"w","e","a","p","o","n">>, val |-> "Physical Abuse"],
    [key |-> <<"k","i","l","l">>,         val |-> "Physical Abuse"] >>

KEYWORD_TO_CATEGORY == <<
    [key |-> <<"h","i","t">>,             val |-> "Physical Abuse"],
    [key |-> <<"s","l","a","p">>,         val |-> "Physical Abuse"],
    [key |-> <<"p","u","n","c","h">>,     val |-> "Physical Abuse"],
    [key |-> <<"k","i","c","k">>,         val |-> "Physical Abuse"],
    [key |-> <<"w","e","a","p","o","n">>, val |-> "Physical Abuse"],
    [key |-> <<"k","i","l","l">>,         val |-> "Physical Abuse"],
    [key |-> <<"t","h","r","e","a","t">>, val |-> "Control & Manipulation"] >>

TopicIds == {1, 2, 3, 4, 5, 6, 8}

TOPIC_MAPPING ==
    [id \in TopicIds |->
        CASE id \in {2, 3, 6} -> "Control & Manipulation"
          [] id \in {4, 1}    -> "Neglect & Emotional Withdrawal"
          [] id \in {8, 5}    -> "Verbal & Emotional Abuse"]

AnchorCategories == << "Control & Manipulation", "Verbal & Emotional Abuse",
                       "Physical Abuse", "Neglect & Emotional Withdrawal" >>

CATEGORIES_ADVICE ==
    [c \in { "Control & Manipulation", "Verbal & Emotional Abuse",
             "Neglect & Emotional Withdrawal", "Physical Abuse",
             "Healthy/Low Risk", "Neutral / Unclassified" } |->
        CASE c = "Control & Manipulation" ->
                 "Document incidents. Do not share your location if unsafe."
          [] c = "Verbal & Emotional Abuse" ->
                 "Prioritize your mental health. Do not engage in escalating arguments."
          [] c = "Neglect & Emotional Withdrawal" ->
                 "Seek counseling or support from trusted friends."
          [] c = "Physical Abuse" -> "Go to a safe place immediately. Call 911."
          [] c = "Healthy/Low Risk" -> "Maintain open communication."
          [] c = "Neutral / Unclassified" -> "No specific pattern detected."]

---------------------------------------------------------------------------
(* What the external models may return *)

\* topic_model.transform([text]): topics[0] and probs (None, or probs[0] a
\* scalar, or probs[0] a vector of per-topic probabilities)
TopicCases == <<
    [topic |-> -1, kind |-> "none",   vals |-> <<>>],
    [topic |-> -1, kind |-> "scalar", vals |-> <<9000>>],
    [topic |-> 0,  kind |-> "vector", vals |-> <<2000, 7000, 1000>>],
    [topic |-> 2,  kind |-> "none",   vals |-> <<>>],
    [topic |-> 2,  kind |-> "scalar", vals |-> <<8766>>],
    [topic |-> 5,  kind |-> "vector", vals |-> <<1000, 6000, 2900>>],
    [topic |-> 4,  kind |-> "scalar", vals |-> <<0>>],
    [topic |-> 8,  kind |-> "vector", vals |-> <<10000>>],
    [topic |-> 7,  kind |-> "scalar", vals |-> <<10000>>] >>

\* util.cos_sim(user_embedding, anchors).max() for each anchor category, in
\* the order of AnchorCategories
SimCases == <<
    <<-2000, 0, -1, -5000>>,
    <<1200, 3500, 3499, -100>>,
    <<3000, 1000, 3501, 3500>>,
    <<10000, 4000, -10000, 10000>>,
    <<-3000, 2000, 6000, 8766>> >>

NotCalled == [kind |-> "not called"]

---------------------------------------------------------------------------
(* hybrid_detect *)

PassesGuardNoStrip(t) == t # <<>> /\ Len(t) >= MinTextLen

PassesGuard(t) == t # <<>> /\ Len(Strip(t)) >= MinTextLen

KeywordLayerLastMatch(text_lower) ==
    LET hits == {i \in 1..Len(KEYWORD_TO_CATEGORY) :
                    Contains(KEYWORD_TO_CATEGORY[i].key, text_lower)}
    IN IF hits = {} THEN 0 ELSE CHOOSE i \in hits : \A j \in hits : i >= j

\* the index in KEYWORD_TO_CATEGORY of the entry the loop returns on, 0 if none
KeywordLayer(text_lower) ==
    LET hits == {i \in 1..Len(KEYWORD_TO_CATEGORY) :
                    Contains(KEYWORD_TO_CATEGORY[i].key, text_lower)}
    IN IF hits = {} THEN 0 ELSE CHOOSE i \in hits : \A j \in hits : i <= j

RECURSIVE SeqMax(_)
SeqMax(s) ==
    IF Len(s) = 1 THEN s[1]
    ELSE LET m == SeqMax(Tail(s)) IN IF s[1] >= m THEN s[1] ELSE m

RECURSIVE SeqSum(_)
SeqSum(s) == IF s = <<>> THEN 0 ELSE s[1] + SeqSum(Tail(s))

TopicConfidenceSum(out) ==
    CASE out.kind = "none"   -> DefaultTopicConfidence
      [] out.kind = "vector" -> SeqSum(out.vals)
      [] out.kind = "scalar" -> out.vals[1]

TopicConfidence(out) ==
    CASE out.kind = "none"   -> DefaultTopicConfidence
      [] out.kind = "vector" -> SeqMax(out.vals)
      [] out.kind = "scalar" -> out.vals[1]

\* the loop over ANCHOR_EMBEDDINGS: after the first n categories
RECURSIVE BestAnchor(_, _)
BestAnchor(scores, n) ==
    IF n = 0 THEN [best_cat |-> "Neutral / Unclassified", high_score |-> 0]
    ELSE LET prev == BestAnchor(scores, n - 1)
         IN IF scores[n] > prev.high_score
            THEN [best_cat |-> AnchorCategories[n], high_score |-> scores[n]]
            ELSE prev

SemanticConfidentAtThreshold(best) == best.high_score >= SimThreshold

SemanticConfident(best) == best.high_score > SimThreshold

TopicMapped(out) == out.topic \in DOMAIN TOPIC_MAPPING

Answer(cat, method, conf, calls) ==
    [category |-> cat, method |-> method, confidence |-> conf, calls |-> calls]

\* lines 133-141, which read the text only: "short" when the guard stops the
\* call, else the index of the trigger the keyword loop stops on (0: none)
Front(t) ==
    IF ~PassesGuard(t) THEN [short |-> TRUE, k |-> 0]
    ELSE [short |-> FALSE, k |-> KeywordLayer(TextLower(t))]

LayersSemanticFirst(front, tm, em, topicOut, simOut) ==
    LET best == BestAnchor(simOut, Len(AnchorCategories))
        upToSemantic == <<"keyword">> \o (IF em THEN <<"semantic">> ELSE <<>>)
    IN
    IF front.short
    THEN Answer("Healthy/Low Risk", "Insufficient Data", 0, <<>>)
    ELSE IF front.k # 0
    THEN Answer(KEYWORD_TO_CATEGORY[front.k].val, "Manual Keyword Match",
                KeywordConfidence, <<"keyword">>)
    ELSE IF em /\ SemanticConfident(best)
    THEN Answer(best.best_cat, "AI Semantic Similarity", best.high_score,
                upToSemantic)
    ELSE IF tm /\ TopicMapped(topicOut)
    THEN Answer(TOPIC_MAPPING[topicOut.topic],
                "AI Cluster " \o ToString(topicOut.topic),
                TopicConfidence(topicOut), upToSemantic \o <<"topic">>)
    ELSE Answer("Healthy/Low Risk", "System Default", 0,
                upToSemantic \o (IF tm THEN <<"topic">> ELSE <<>>))

\* hybrid_detect once the text has been read; calls: the layers the call ran,
\* in the order it ran them
Layers(front, tm, em, topicOut, simOut) ==
    LET best == BestAnchor(simOut, Len(AnchorCategories))
        upToTopic == <<"keyword">> \o (IF tm THEN <<"topic">> ELSE <<>>)
    IN
    IF front.short
    THEN Answer("Healthy/Low Risk", "Insufficient Data", 0, <<>>)
    ELSE IF front.k # 0
    THEN Answer(KEYWORD_TO_CATEGORY[front.k].val, "Manual Keyword Match",
                KeywordConfidence, <<"keyword">>)
    ELSE IF tm /\ TopicMapped(topicOut)
    THEN Answer(TOPIC_MAPPING[topicOut.topic],
                "AI Cluster " \o ToString(topicOut.topic),
                TopicConfidence(topicOut), upToTopic)
    ELSE IF em /\ SemanticConfident(best)
    THEN Answer(best.best_cat, "AI Semantic Similarity", best.high_score,
                upToTopic \o <<"semantic">>)
    ELSE Answer("Healthy/Low Risk", "System Default", 0,
                upToTopic \o (IF em THEN <<"semantic">> ELSE <<>>))

HybridDetect(t, tm, em, topicOut, simOut) ==
    Layers(Front(t), tm, em, topicOut, simOut)

Called(r, layer) == \E i \in 1..Len(r.calls) : r.calls[i] = layer

---------------------------------------------------------------------------
(* Direct calls of hybrid_detect *)

GuardAlphabet == {"h", "i", "t", " "}

ShortTexts == UNION {[1..n -> GuardAlphabet] : n \in 0..MaxTextLen}

LongTexts == {
    <<"h","e"," ","w","i","l","l"," ","k","i","l","l"," ","m","e">>,
    <<"H","e"," ","H","I","T"," ","m","e">>,
    <<"t","h","r","e","a","t"," ","h","i","t">>,
    <<"T","h","r","e","a","t","s">>,
    <<" ","k","i","l","l","\t">>,
    <<"\n","a"," ","b"," ","c"," ">>,
    <<"n","o","r","m","a","l"," ","d","a","y">> }

Texts == ShortTexts \cup LongTexts

NoResult == [category |-> "", method |-> "", confidence |-> 0, calls |-> <<>>]

\* a POST /analyze with no JSON body: request.json is None
NoBody == [has_json |-> FALSE, grouped_answers |-> <<>>]

NoReply == [status |-> "", code |-> 0]

InitDetect ==
    /\ topic_model \in BOOLEAN
    /\ embedding_model \in BOOLEAN
    /\ text \in Texts
    /\ result = NoResult
    /\ observed = [topic |-> NotCalled, sim |-> NotCalled]
    /\ request = NoBody
    /\ seed = 0
    /\ detections = <<>>
    /\ total_risk_score = 0
    /\ reply = NoReply
    /\ dbLog = <<>>
    /\ assessments = <<>>

Detect ==
    /\ result = NoResult
    /\ \E front \in {Front(text)} :
       \E ti \in 1..Len(TopicCases), si \in 1..Len(SimCases) :
       \E r \in {Layers(front, topic_model, embedding_model,
                        TopicCases[ti], SimCases[si])} :
             /\ result' = r
             /\ observed' = [topic |-> IF Called(r, "topic")
                                       THEN TopicCases[ti] ELSE NotCalled,
                             sim   |-> IF Called(r, "semantic")
                                       THEN [kind |-> "scores", vals |-> SimCases[si]]
                                       ELSE NotCalled]
    /\ UNCHANGED <<topic_model, embedding_model, text, request, seed,
                   detections, total_risk_score, reply, dbLog, assessments>>

NextDetect == Detect

SpecDetect == InitDetect /\ [][NextDetect]_vars

---------------------------------------------------------------------------
(* POST /analyze *)

\* The models are deterministic: the same text gets the same answer within a
\* run.  seed selects which answer each text gets.
TopicOut(sd, t) == TopicCases[((Len(t) + sd) % Len(TopicCases)) + 1]

SimOut(sd, t) == SimCases[((Len(t) + 3 * sd) % Len(SimCases)) + 1]

Detected(t, tm, em, sd) == HybridDetect(t, tm, em, TopicOut(sd, t), SimOut(sd, t))

RECURSIVE SumWeights(_)
SumWeights(items) ==
    IF items = <<>> THEN 0 ELSE items[1].weight + SumWeights(Tail(items))

SectionText(items) == Join([i \in 1..Len(items) |-> items[i].text])

SectionScore(items) == SumWeights(items)

SectionRiskScoreFirst(cat, section_score) ==
    IF section_score >= SectionHigh THEN [risk |-> "High", color |-> "orange"]
    ELSE IF cat = "Physical Abuse" THEN [risk |-> "Severe", color |-> "red"]
    ELSE IF section_score >= SectionModerate THEN [risk |-> "Moderate", color |-> "yellow"]
    ELSE [risk |-> "Low", color |-> "green"]

SectionRisk(cat, section_score) ==
    IF cat = "Physical Abuse" THEN [risk |-> "Severe", color |-> "red"]
    ELSE IF section_score >= SectionHigh THEN [risk |-> "High", color |-> "orange"]
    ELSE IF section_score >= SectionModerate THEN [risk |-> "Moderate", color |-> "yellow"]
    ELSE [risk |-> "Low", color |-> "green"]

OverallRiskSectionThresholds(gen_cat, total) == SectionRisk(gen_cat, total)

OverallRisk(gen_cat, total) ==
    IF gen_cat = "Physical Abuse" THEN [risk |-> "Severe", color |-> "red"]
    ELSE IF total >= OverallHigh THEN [risk |-> "High", color |-> "orange"]
    ELSE IF total >= OverallModerate THEN [risk |-> "Moderate", color |-> "yellow"]
    ELSE [risk |-> "Low", color |-> "green"]

\* round(conf * 100, 1) in tenths of a percent; conf is in 1/10000, so this
\* rounds conf / 10 to the nearest integer (a tie goes to the even one; no
\* value of this model is a tie, and which way the float goes is not modelled)
RoundPercent(conf) ==
    LET q == conf \div 10
        r == conf % 10
    IN IF r < 5 THEN q
       ELSE IF r > 5 THEN q + 1
       ELSE IF q % 2 = 0 THEN q ELSE q + 1

\* str() of the rounded float: "100.0", "87.7", "0.0"
FloatText(tenths) == ToString(tenths \div 10) \o "." \o ToString(tenths % 10)

\* f"{round(conf * 100, 1)}%"
SectionConfidence(conf) == FloatText(RoundPercent(conf)) \o "%"

\* f"{round(gen_conf * 100, 1)}"
GeneralConfidence(gen_conf) == FloatText(RoundPercent(gen_conf))

\* f"{round(gen_conf * 100, 1)}%"
RowConfidence(gen_conf) == FloatText(RoundPercent(gen_conf)) \o "%"

\* the sections the loop does not skip, by position in grouped_answers
Analyzed(grouped) == {n \in 1..Len(grouped) : grouped[n] # <<>>}

RECURSIVE AllSentences(_)
AllSentences(grouped) ==
    IF grouped = <<>> THEN <<>>
    ELSE (IF grouped[1] = <<>> THEN <<>> ELSE <<SectionText(grouped[1])>>)
         \o AllSentences(Tail(grouped))

RECURSIVE TotalRiskScore(_)
TotalRiskScore(grouped) ==
    IF grouped = <<>> THEN 0
    ELSE (IF grouped[1] = <<>> THEN 0 ELSE SectionScore(grouped[1]))
         + TotalRiskScore(Tail(grouped))

FullText(grouped) == Join(AllSentences(grouped))

Advice(gen_cat) ==
    IF gen_cat \in DOMAIN CATEGORIES_ADVICE THEN CATEGORIES_ADVICE[gen_cat]
    ELSE "No advice available."

\* the hybrid_detect calls of one request, in order; section 0 is the general one
RECURSIVE SectionCalls(_, _, _, _, _)
SectionCalls(grouped, n, tm, em, sd) ==
    IF n > Len(grouped) THEN <<>>
    ELSE (IF grouped[n] = <<>> THEN <<>>
          ELSE << [section |-> n, text |-> SectionText(grouped[n]),
                   result |-> Detected(SectionText(grouped[n]), tm, em, sd)] >>)
         \o SectionCalls(grouped, n + 1, tm, em, sd)

DetectCalls(grouped, tm, em, sd) ==
    SectionCalls(grouped, 1, tm, em, sd)
    \o << [section |-> 0, text |-> FullText(grouped),
           result |-> Detected(FullText(grouped), tm, em, sd)] >>

CallFor(calls, n) == calls[CHOOSE i \in 1..Len(calls) : calls[i].section = n].result

Breakdown(grouped, calls) ==
    [n \in Analyzed(grouped) |->
        LET d == CallFor(calls, n)
            r == SectionRisk(d.category, SectionScore(grouped[n]))
        IN [category |-> d.category, risk |-> r.risk, color |-> r.color,
            confidence |-> SectionConfidence(d.confidence)]]

ResponseData(grouped, calls) ==
    LET g == CallFor(calls, 0)
        r == OverallRisk(g.category, TotalRiskScore(grouped))
    IN [general |-> [category |-> g.category, risk |-> r.risk, color |-> r.color,
                     advice |-> Advice(g.category), method |-> g.method,
                     confidence |-> GeneralConfidence(g.confidence)],
        breakdown |-> Breakdown(grouped, calls)]

\* the row of table assessments (without its clock timestamp); full_report is
\* json.dumps(response_data), kept as the value it serialises
Row(response_data, gen_conf) ==
    [risk_level |-> response_data.general.risk,
     main_category |-> response_data.general.category,
     confidence |-> RowConfidence(gen_conf),
     full_report |-> response_data]

\* get_db_connection, cursor.execute, conn.commit, cursor.close/conn.close
DbOps == <<"connect", "execute", "commit", "close">>

\* the operation that raises; 0: none does
DbFaults == 0..Len(DbOps)

\* the try block around the INSERT
Persist(fault, row) ==
    LET last == IF fault = 0 THEN Len(DbOps) ELSE fault
    IN [log  |-> [i \in 1..last |-> [op |-> DbOps[i], ok |-> i # fault]],
        rows |-> IF fault = 0 \/ DbOps[fault] = "close" THEN <<row>> ELSE <<>>]

ErrorReply == [status |-> "error", code |-> 500]

\* lines 178-223: everything before the INSERT
Processed(req, tm, em, sd) ==
    IF ~req.has_json
    THEN [ok |-> FALSE]
    ELSE LET calls == DetectCalls(req.grouped_answers, tm, em, sd)
         IN [ok |-> TRUE, calls |-> calls,
             total |-> TotalRiskScore(req.grouped_answers),
             response_data |-> ResponseData(req.grouped_answers, calls)]

FinishDbFatal(done, fault) ==
    IF ~done.ok
    THEN [reply |-> ErrorReply, log |-> <<>>, rows |-> <<>>]
    ELSE LET p == Persist(fault, Row(done.response_data,
                                     CallFor(done.calls, 0).confidence))
         IN [reply |-> IF fault = 0
                       THEN [status |-> "success", code |-> 200,
                             result |-> done.response_data]
                       ELSE ErrorReply,
             log |-> p.log, rows |-> p.rows]

\* lines 225-243: request.json None made data.get raise, caught by the outer
\* except (500); otherwise the INSERT is tried once, whatever it raises is
\* printed and dropped, and the response is returned
Finish(done, fault) ==
    IF ~done.ok
    THEN [reply |-> ErrorReply, log |-> <<>>, rows |-> <<>>]
    ELSE LET p == Persist(fault, Row(done.response_data,
                                     CallFor(done.calls, 0).confidence))
         IN [reply |-> [status |-> "success", code |-> 200,
                        result |-> done.response_data],
             log |-> p.log, rows |-> p.rows]

T_he_hit_me == <<"h","e"," ","h","i","t"," ","m","e">>
T_HIT == <<"H","I","T">>
T_me == <<"m","e">>
T_threat == <<"t","h","r","e","a","t">>
T_normal_day == <<"n","o","r","m","a","l"," ","d","a","y">>
T_ab == <<"a","b">>
T_I_feel_sad == <<"I"," ","f","e","e","l"," ","s","a","d">>
T_he_yells == <<"h","e"," ","y","e","l","l","s">>
T_hit == <<"h","i","t">>

Item(t, w) == [text |-> t, weight |-> w]

\* the lists of answers a section may hold
SectionPool == {
    <<>>,
    << Item(T_he_hit_me, 5) >>,
    << Item(T_HIT, 3), Item(T_me, 4) >>,
    << Item(T_threat, 3) >>,
    << Item(T_normal_day, 1) >>,
    << Item(T_ab, 3) >>,
    << Item(T_I_feel_sad, 3), Item(T_he_yells, 3) >>,
    << Item(T_hit, 10) >> }

Requests ==
    {NoBody} \cup
    { [has_json |-> TRUE, grouped_answers |-> g] :
        g \in UNION {[1..n -> SectionPool] : n \in 0..MaxSections} }

Init ==
    /\ topic_model \in BOOLEAN
    /\ embedding_model \in BOOLEAN
    /\ text = <<>>
    /\ result = NoResult
    /\ observed = [topic |-> NotCalled, sim |-> NotCalled]
    /\ request \in Requests
    /\ seed \in 0..MaxSeed
    /\ detections = <<>>
    /\ total_risk_score = 0
    /\ reply = NoReply
    /\ dbLog = <<>>
    /\ assessments = <<>>

Analyze ==
    /\ reply = NoReply
    /\ \E done \in {Processed(request, topic_model, embedding_model, seed)} :
       \E fault \in DbFaults :
       \E end \in {Finish(done, fault)} :
          /\ reply' = end.reply
          /\ detections' = IF done.ok THEN done.calls ELSE <<>>
          /\ total_risk_score' = IF done.ok THEN done.total ELSE 0
          /\ dbLog' = end.log
          /\ assessments' = end.rows
    /\ UNCHANGED <<topic_model, embedding_model, text, result, observed,
                   request, seed>>

Next == Analyze

Spec == Init /\ [][Next]_vars

---------------------------------------------------------------------------
(* Properties of hybrid_detect, checked under SpecDetect *)

Returned == result # NoResult

Triggers(t) == {i \in 1..Len(KEYWORD_TO_CATEGORY) :
                   Contains(KEYWORD_TO_CATEGORY[i].key, TextLower(t))}

NonWhitespace(t) == Cardinality({i \in 1..Len(t) : t[i] \notin Whitespace})

TopicAnswered ==
    /\ Called(result, "topic")
    /\ observed.topic.topic \in TopicIds

SimilarityAbove(x) ==
    /\ Called(result, "semantic")
    /\ \E i \in 1..Len(observed.sim.vals) : observed.sim.vals[i] > x

\* C1 as stated: every text containing a trigger gets that trigger's category
\* with confidence 1.0 and method "Manual Keyword Match".
C1_AnyTextWithTrigger ==
    Returned =>
        \A i \in Triggers(text) :
            /\ result.category = KEYWORD_TO_CATEGORY[i].val
            /\ result.confidence = 10000
            /\ result.method = "Manual Keyword Match"

\* C1 amended: a text of at least 5 characters after stripping that contains a
\* trigger gets the category of the first entry of KEYWORD_TO_CATEGORY whose
\* key it contains, confidence 1.0 and method "Manual Keyword Match", whether
\* the models are loaded or not and whatever they would return.
C1_KeywordMatchWins ==
    (Returned /\ Len(Strip(text)) >= 5) =>
      \A found \in {Triggers(text)} :
        found # {} =>
        /\ \E i \in found :
              /\ \A j \in found : i <= j
              /\ result.category = KEYWORD_TO_CATEGORY[i].val
        /\ result.confidence = 10000
        /\ result.method = "Manual Keyword Match"
        /\ ~Called(result, "topic") /\ ~Called(result, "semantic")

C1_Witness ==
    /\ Returned /\ topic_model /\ embedding_model
    /\ Cardinality({KEYWORD_TO_CATEGORY[i].val : i \in Triggers(text)}) = 2
    /\ result.category = "Physical Abuse"
    /\ result.method = "Manual Keyword Match"

\* C2 as stated: fewer than 5 non-whitespace characters give
\* ("Healthy/Low Risk", "Insufficient Data", 0.0) and no layer runs.
C2_FewNonWhitespace ==
    (Returned /\ NonWhitespace(text) < 5) =>
        result = Answer("Healthy/Low Risk", "Insufficient Data", 0, <<>>)

\* C2 amended: a text that is empty or has fewer than 5 characters once its
\* leading and trailing whitespace is removed (inner whitespace counts) gives
\* ("Healthy/Low Risk", "Insufficient Data", 0.0) and no layer runs.
C2_ShortAfterStrip ==
    (Returned /\ Len(Strip(text)) < 5) =>
        result = Answer("Healthy/Low Risk", "Insufficient Data", 0, <<>>)

C2_Witness ==
    /\ Returned /\ Len(text) >= 5 /\ Len(Strip(text)) < 5
    /\ Triggers(text) # {}
    /\ result.method = "Insufficient Data"

\* C5: guard passed, no trigger, topic model unloaded or its topic unmapped,
\* embedding model unloaded or no similarity above 0.35: the result is
\* ("Healthy/Low Risk", "System Default", 0.0); an unloaded model is not called.
C5_SystemDefault ==
    Returned =>
        /\ (~topic_model => ~Called(result, "topic"))
        /\ (~embedding_model => ~Called(result, "semantic"))
        /\ ( ( /\ (topic_model => Called(result, "topic") /\ ~TopicAnswered)
               /\ (embedding_model =>
                      Called(result, "semantic") /\ ~SimilarityAbove(3500))
               /\ Len(Strip(text)) >= 5
               /\ Triggers(text) = {} )
              => /\ result.category = "Healthy/Low Risk"
                 /\ result.method = "System Default"
                 /\ result.confidence = 0 )

C5_Witness ==
    /\ Returned /\ topic_model /\ embedding_model
    /\ Called(result, "topic") /\ ~TopicAnswered
    /\ Called(result, "semantic")
    /\ \E i \in 1..4 : observed.sim.vals[i] = 3500
    /\ result.method = "System Default"

C9_LayerPriority ==
    Returned =>
        /\ ( (TopicAnswered /\ Triggers(text) = {}) =>
               /\ result.category = TOPIC_MAPPING[observed.topic.topic]
               /\ result.method = "AI Cluster " \o ToString(observed.topic.topic)
               /\ result.calls = <<"keyword", "topic">> )
        /\ ( result.method = "AI Semantic Similarity" =>
               /\ Len(Strip(text)) >= 5 /\ Triggers(text) = {}
               /\ embedding_model
               /\ (topic_model => Called(result, "topic") /\ ~TopicAnswered)
               /\ result.confidence > 3500
               /\ \E i \in 1..4 :
                     /\ result.category = AnchorCategories[i]
                     /\ result.confidence = observed.sim.vals[i]
                     /\ \A j \in 1..4 : observed.sim.vals[j] <= observed.sim.vals[i]
                     /\ \A j \in 1..(i - 1) : observed.sim.vals[j] < observed.sim.vals[i] )

C9_Witness ==
    /\ Returned /\ topic_model /\ embedding_model
    /\ Triggers(text) = {} /\ TopicAnswered
    /\ result.method = "AI Cluster 2"
    /\ result.category = "Control & Manipulation"
    /\ ~Called(result, "semantic")

---------------------------------------------------------------------------
(* Properties of analyze, checked under Spec *)

Replied == reply # NoReply

Succeeded == Replied /\ reply.status = "success"

General == reply.result.general

SectionsCalled == {i \in 1..Len(detections) : detections[i].section # 0}

GeneralCall == detections[Len(detections)]

RECURSIVE WeightSum(_, _)
WeightSum(grouped, n) ==
    IF n = 0 THEN 0
    ELSE WeightSum(grouped, n - 1) + SectionScore(grouped[n])

\* where the k-th text starts in the texts joined by single spaces
RECURSIVE Offset(_, _)
Offset(calls, k) ==
    IF k = 1 THEN 0 ELSE Offset(calls, k - 1) + Len(calls[k - 1].text) + 1

\* C3: a section's risk is Severe/red iff hybrid_detect gave its text
\* "Physical Abuse", whatever its weight sum; otherwise High/orange from 6,
\* Moderate/yellow from 2, Low/green below 2.
C3_SectionRisk ==
    Succeeded =>
        /\ DOMAIN reply.result.breakdown =
              {detections[i].section : i \in SectionsCalled}
        /\ \A i \in SectionsCalled :
              LET n == detections[i].section
                  cat == detections[i].result.category
                  score == SectionScore(request.grouped_answers[n])
                  e == reply.result.breakdown[n]
              IN /\ e.category = cat
                 /\ (e.risk = "Severe") <=> (cat = "Physical Abuse")
                 /\ (e.color = "red") <=> (cat = "Physical Abuse")
                 /\ (cat # "Physical Abuse" /\ score >= 6) =>
                        (e.risk = "High" /\ e.color = "orange")
                 /\ (cat # "Physical Abuse" /\ score >= 2 /\ score < 6) =>
                        (e.risk = "Moderate" /\ e.color = "yellow")
                 /\ (cat # "Physical Abuse" /\ score < 2) =>
                        (e.risk = "Low" /\ e.color = "green")

C3_Witness ==
    /\ Succeeded
    /\ \E n \in DOMAIN reply.result.breakdown :
          /\ SectionScore(request.grouped_answers[n]) = 7
          /\ reply.result.breakdown[n].category = "Physical Abuse"
          /\ reply.result.breakdown[n].risk = "Severe"
          /\ reply.result.breakdown[n].color = "red"

\* C4: the total is the sum of the sections' weight sums; the overall category
\* is hybrid_detect's on the section texts joined by single spaces; the
\* overall risk is Severe/red for "Physical Abuse", else High/orange from 10,
\* Moderate/yellow from 3, Low/green below; two sections scoring 3 each without
\* "Physical Abuse" are Moderate each and Moderate overall.
C4_OverallOutcome ==
    Succeeded =>
      \A m \in {Len(detections) - 1} :
      \A full \in {GeneralCall.text} :
      \A cat \in {GeneralCall.result.category} :
      \A total \in {WeightSum(request.grouped_answers, Len(request.grouped_answers))} :
        /\ total_risk_score = total
        /\ GeneralCall.section = 0 /\ SectionsCalled = 1..m
        /\ Len(full) = IF m = 0 THEN 0
                       ELSE Offset(detections, m) + Len(detections[m].text)
        /\ \A k \in 1..m :
              \A from \in {Offset(detections, k)} :
              \A len \in {Len(detections[k].text)} :
                 /\ SubSeq(full, from + 1, from + len) = detections[k].text
                 /\ k < m => full[from + len + 1] = " "
        /\ GeneralCall.result =
              Detected(full, topic_model, embedding_model, seed)
        /\ General.category = cat
        /\ cat = "Physical Abuse" => (General.risk = "Severe" /\ General.color = "red")
        /\ (cat # "Physical Abuse" /\ total >= 10) =>
               (General.risk = "High" /\ General.color = "orange")
        /\ (cat # "Physical Abuse" /\ total >= 3 /\ total < 10) =>
               (General.risk = "Moderate" /\ General.color = "yellow")
        /\ (cat # "Physical Abuse" /\ total < 3) =>
               (General.risk = "Low" /\ General.color = "green")
        /\ ( /\ m = 2
             /\ \A i \in 1..3 : detections[i].result.category # "Physical Abuse"
             /\ \A i \in 1..2 :
                   SectionScore(request.grouped_answers[detections[i].section]) = 3 )
           => /\ \A i \in 1..2 :
                    reply.result.breakdown[detections[i].section].risk = "Moderate"
              /\ General.risk = "Moderate"

C4_Witness ==
    /\ Succeeded
    /\ Len(detections) = 3
    /\ \A i \in 1..2 :
          /\ SectionScore(request.grouped_answers[detections[i].section]) = 3
          /\ reply.result.breakdown[detections[i].section].risk = "Moderate"
          /\ detections[i].result.category # General.category
    /\ total_risk_score = 6
    /\ General.risk = "Moderate"

\* C7: when the response has been built, the reply is status success with the
\* response a successful INSERT would have been followed by, whichever
\* database operation fails, and the INSERT is tried at most once.
C7_PersistenceFailureIgnored ==
    (Replied /\ request.has_json) =>
        /\ reply.status = "success"
        /\ reply = Finish(Processed(request, topic_model, embedding_model, seed), 0).reply
        /\ Cardinality({i \in 1..Len(dbLog) : dbLog[i].op = "connect"}) = 1
        /\ Cardinality({i \in 1..Len(dbLog) : dbLog[i].op = "execute"}) <= 1
        /\ \A i \in 1..Len(dbLog) : ~dbLog[i].ok => i = Len(dbLog)

C7_Witness ==
    /\ Replied /\ request.has_json
    /\ dbLog # <<>>
    /\ dbLog[Len(dbLog)].op = "execute" /\ ~dbLog[Len(dbLog)].ok
    /\ assessments = <<>>
    /\ reply.status = "success"
    /\ General.category = "Physical Abuse"

\* f"{round(conf * 100, 1)}%" as the claim reads it
PercentString(conf) == FloatText(RoundPercent(conf)) \o "%"

\* C8: the breakdown entries, the general outcome and the stored row all
\* render a confidence as the one-decimal percentage followed by "%".
C8_SamePercentString ==
    Succeeded =>
        /\ \A i \in SectionsCalled :
              reply.result.breakdown[detections[i].section].confidence =
                  PercentString(detections[i].result.confidence)
        /\ General.confidence = PercentString(GeneralCall.result.confidence)
        /\ assessments # <<>> =>
              assessments[1].confidence = PercentString(GeneralCall.result.confidence)

\* C10: if the keyword layer classified some section "Physical Abuse", the
\* overall outcome is "Physical Abuse", Severe, red.
C10_SevereSectionForcesSevereOverall ==
    ( /\ Succeeded
      /\ \E i \in SectionsCalled :
            /\ detections[i].result.category = "Physical Abuse"
            /\ detections[i].result.method = "Manual Keyword Match" )
    => /\ General.category = "Physical Abuse"
       /\ General.risk = "Severe"
       /\ General.color = "red"

C10_Witness ==
    /\ Succeeded
    /\ \E i, j \in SectionsCalled :
          /\ detections[i].result.category = "Physical Abuse"
          /\ detections[i].result.method = "Manual Keyword Match"
          /\ reply.result.breakdown[detections[i].section].risk = "Severe"
          /\ detections[j].result.category = "Control & Manipulation"
          /\ detections[j].result.method = "Manual Keyword Match"
    /\ General.category = "Physical Abuse"
    /\ General.risk = "Severe"

===========================================================================
